---------------------------- MODULE Spec2Model ----------------------------
(***************************************************************************)
(* Model of src/app.py, the stock dashboard script.  One run of the script *)
(* is one pass from the widget values (symbols, start_date, end_date)      *)
(* through the provider call, the charts, the snapshot table and the two   *)
(* exports.  A change of a widget starts a fresh run.                      *)
(*                                                                         *)
(* Raw provider numbers are floats.  The model draws them from the dyadic  *)
(* rationals k/16, which a double holds exactly, and writes the integer k. *)
(* Rounded prices are written in hundredths.  Percent changes are IEEE     *)
(* doubles, kept as sign, exponent and a 53-bit significand.               *)
(***************************************************************************)
EXTENDS Integers, Sequences, FiniteSets

\* Bounds of the model.
MaxRows == 3

\* Program constants.
Decimals == 2
PctFactor == 100
PreviewRows == 20

\* The multiselect's options (two of the ten) and its default.
Options == {"AAPL", "MSFT"}
DefaultSymbols == <<"AAPL", "MSFT">>
DefaultStart == 1

Max(a, b) == IF a >= b THEN a ELSE b

Range(s) == {s[i] : i \in DOMAIN s}

RECURSIVE Pow(_, _)
Pow(b, n) ==
    IF n = 0 THEN 1
    ELSE IF n % 2 = 1 THEN b * Pow(b, n - 1)
    ELSE LET h == Pow(b, n \div 2) IN h * h

\* What the multiselect can return: the picked options, in picking order.
Selections ==
    {s \in UNION {[1..k -> Options] : k \in 0..Cardinality(Options)} :
        \A i, j \in DOMAIN s : i # j => s[i] # s[j]}

(***************************************************************************)
(* The provider.  It holds these daily rows and answers a call with, for   *)
(* each symbol asked for, some rows of the requested range in some order,  *)
(* possibly repeated, possibly none; or the call fails.                    *)
(***************************************************************************)
Row(d, o, h, l, c, v) ==
    [Date |-> d, Open |-> o, High |-> h, Low |-> l, Close |-> c, Volume |-> v]

Market(sym) ==
    IF sym = "AAPL"
    THEN { Row(1, 1601, 1618, 1590, 1600, 16010),   \* close 100.0
           Row(2, 1606, 1770, 1598, 1760, 16000),   \* close 110.0
           Row(3, 1762, 1767, 1580, 1584, 16015) }  \* close 99.0
    ELSE { Row(1, 0, 6, 0, 0, 0),                   \* close 0.0
           Row(1, 1594, 1610, 1593, 1602, 24) }     \* the same day again

\* The days the date inputs can take: the provider's trading days; the last
\* one is today.
Dates == UNION {{r.Date : r \in Market(sym)} : sym \in Options}
Today == CHOOSE d \in Dates : \A e \in Dates : e <= d

InRange(sym, s, e) == {r \in Market(sym) : s <= r.Date /\ r.Date <= e}

Deliveries(sym, s, e) ==
    UNION {[1..k -> InRange(sym, s, e)] : k \in 0..MaxRows}

\* yf.download(symbols, start, end): the answers it can give, or the fault.
yf_download(syms, s, e) ==
    {f \in [Range(syms) -> UNION {Deliveries(sym, s, e) : sym \in Range(syms)}] :
        \A sym \in Range(syms) : f[sym] \in Deliveries(sym, s, e)}

(***************************************************************************)
(* IEEE-754 double arithmetic, round to nearest, ties to even.  A double   *)
(* is [kind, sign, exp, mant]: kind "num" is                               *)
(* (-1)^sign * 1.mant[2..53] * 2^exp with mant[1] = 1; "zero", "inf" and   *)
(* "nan" carry no significand.  Bit sequences are most significant first.  *)
(***************************************************************************)
Precision == 53

Zeros(n) == [i \in 1..n |-> 0]

NaN == [kind |-> "nan", sign |-> 0, exp |-> 0, mant |-> <<>>]
Inf(s) == [kind |-> "inf", sign |-> s, exp |-> 0, mant |-> <<>>]
Zero(s) == [kind |-> "zero", sign |-> s, exp |-> 0, mant |-> <<>>]
Num(s, e, m) == [kind |-> "num", sign |-> s, exp |-> e, mant |-> m]

\* The value of a short bit sequence, and the n low bits of a natural number.
RECURSIVE FromBits(_)
FromBits(b) ==
    IF Len(b) = 0 THEN 0
    ELSE IF Len(b) = 1 THEN b[1]
    ELSE LET h == Len(b) \div 2
         IN  FromBits(SubSeq(b, 1, h)) * Pow(2, Len(b) - h)
               + FromBits(SubSeq(b, h + 1, Len(b)))

BitsN(v, n) == [i \in 1..n |-> (v \div Pow(2, n - i)) % 2]

\* bits + 1, one bit longer than bits.
Increment(bits) ==
    IF \A i \in DOMAIN bits : bits[i] = 1 THEN <<1>> \o Zeros(Len(bits))
    ELSE LET p == CHOOSE i \in DOMAIN bits :
                     bits[i] = 0 /\ \A j \in (i + 1)..Len(bits) : bits[j] = 1
         IN  <<0>> \o [i \in DOMAIN bits |->
                          IF i < p THEN bits[i] ELSE IF i = p THEN 1 ELSE 0]

\* bits * n + c for a natural n < 2^10, worked in limbs of LimbBits bits from
\* the low end; the result is 10 bits longer than bits.
LimbBits == 20
RECURSIVE MulSmall(_, _, _)
MulSmall(bits, n, c) ==
    IF Len(bits) <= LimbBits
    THEN BitsN(FromBits(bits) * n + c, Len(bits) + 10)
    ELSE LET k == Len(bits) - LimbBits
             t == FromBits(SubSeq(bits, k + 1, Len(bits))) * n + c
         IN  MulSmall(SubSeq(bits, 1, k), n, t \div Pow(2, LimbBits))
               \o BitsN(t % Pow(2, LimbBits), LimbBits)

LeadingZeros(bits) ==
    IF \A i \in DOMAIN bits : bits[i] = 0 THEN Len(bits)
    ELSE (CHOOSE i \in DOMAIN bits :
            bits[i] = 1 /\ \A j \in 1..(i - 1) : bits[j] = 0) - 1

\* sig starts with a 1 of weight 2^e: the nearest double, ties to even.
Round53(s, sig, e) ==
    IF Len(sig) <= Precision
    THEN Num(s, e, sig \o Zeros(Precision - Len(sig)))
    ELSE LET keep == SubSeq(sig, 1, Precision)
             guard == sig[Precision + 1]
             sticky == \E i \in (Precision + 2)..Len(sig) : sig[i] = 1
             up == guard = 1 /\ (sticky \/ keep[Precision] = 1)
             r == Increment(keep)
         IN  IF ~up THEN Num(s, e, keep)
             ELSE IF r[1] = 1 THEN Num(s, e + 1, SubSeq(r, 1, Precision))
             ELSE Num(s, e, SubSeq(r, 2, Precision + 1))

\* bits, whose first bit has weight 2^top, as a double.
Normalize(s, bits, top) ==
    LET z == LeadingZeros(bits)
    IN  IF z = Len(bits) THEN Zero(s)
        ELSE Round53(s, SubSeq(bits, z + 1, Len(bits)), top - z)

\* 2^k mod b, for b < 2^15.
RECURSIVE PowMod2(_, _)
PowMod2(k, b) ==
    IF k = 0 THEN 1 % b
    ELSE IF k % 2 = 1 THEN (2 * PowMod2(k - 1, b)) % b
    ELSE LET h == PowMod2(k \div 2, b) IN (h * h) % b

\* Long division of r by b, for r < b: the remainder after k quotient bits,
\* and the first n quotient bits.
RemAfter(r, b, k) == (r * PowMod2(k, b)) % b
QBits(r, b, n) ==
    [i \in 1..n |-> IF 2 * RemAfter(r, b, i - 1) >= b THEN 1 ELSE 0]

\* The e with b * 2^e <= a < b * 2^(e+1), for a, b > 0.
RECURSIVE FloorLog2(_, _)
FloorLog2(a, b) ==
    IF a < b THEN FloorLog2(2 * a, b) - 1
    ELSE IF a >= 2 * b THEN FloorLog2(a, 2 * b) + 1
    ELSE 0

Abs(x) == IF x < 0 THEN -x ELSE x

\* x / y for doubles holding the integers (or the sixteenths) x and y, y >= 0.
FDiv(x, y) ==
    LET s == IF x < 0 THEN 1 ELSE 0
        a == Abs(x)
    IN  IF y = 0 THEN (IF a = 0 THEN NaN ELSE Inf(s))
        ELSE IF a = 0 THEN Zero(s)
        ELSE LET e == FloorLog2(a, y)
                 an == IF e < 0 THEN a * Pow(2, -e) ELSE a
                 bn == IF e > 0 THEN y * Pow(2, e) ELSE y
                 sticky == IF RemAfter(an - bn, bn, Precision) > 0 THEN 1 ELSE 0
             IN  Round53(s, <<1>> \o QBits(an - bn, bn, Precision) \o <<sticky>>, e)

\* x - 1.0 for a double x >= 0.
FSubOne(x) ==
    IF x.kind = "nan" \/ x.kind = "inf" THEN x
    ELSE IF x.kind = "zero" THEN Num(1, 0, <<1>> \o Zeros(Precision - 1))
    ELSE IF x.exp >= 0
    THEN LET n == x.exp + 1
             whole == FromBits(SubSeq(x.mant, 1, n)) - 1
         IN  Normalize(0, BitsN(whole, n) \o SubSeq(x.mant, n + 1, Precision),
                       x.exp)
    ELSE LET f == Zeros(-x.exp - 1) \o x.mant
             inv == [i \in 1..Len(f) |-> 1 - f[i]]
         IN  Normalize(1, Increment(inv), 0)

\* x * n for a double x and a small natural n.
FMul(x, n) ==
    IF x.kind # "num" THEN x
    ELSE LET p == MulSmall(x.mant, n, 0)
         IN  Normalize(x.sign, p, x.exp - (Precision - 1) + Len(p) - 1)

(***************************************************************************)
(* pandas and builtins, as the script uses them.                           *)
(***************************************************************************)
\* pct_change().dropna(): the first entry left out.
pct_change_dropna(col) ==
    [i \in 1..(Len(col) - 1) |-> FSubOne(FDiv(col[i + 1], col[i]))]

\* Series.pct_change(): rs = data / data.shift(1) - 1, the first entry NaN.
pct_change(col) ==
    [i \in DOMAIN col |->
        IF i = 1 THEN NaN ELSE FSubOne(FDiv(col[i], col[i - 1]))]

\* frame.index and frame[column], in the order the rows were delivered.
Index(rows) == [i \in DOMAIN rows |-> rows[i].Date]
Column(rows, column) == [i \in DOMAIN rows |-> rows[i][column]]

\* Rounding with ties going up, as in decimal ROUND_HALF_UP.
round_half_up(k, ndigits) ==
    LET n == k * Pow(10, ndigits)
    IN  IF 2 * (n % 16) < 16 THEN n \div 16 ELSE n \div 16 + 1

\* round(x, ndigits) of a float64 holding k/16: x * 10^ndigits, rint (ties to
\* the even integer), in units of 10^-ndigits.
round(k, ndigits) ==
    LET n == k * Pow(10, ndigits)
        q == n \div 16
        r == n % 16
    IN  IF 2 * r < 16 THEN q
        ELSE IF 2 * r > 16 THEN q + 1
        ELSE IF q % 2 = 0 THEN q ELSE q + 1

\* int(x) of a float holding k/16 >= 0: the fraction is dropped.
int(k) == k \div 16

(***************************************************************************)
(* The script's state.                                                     *)
(***************************************************************************)
VARIABLES
    symbols,        \* the multiselect's value
    start_date,     \* the date inputs' values
    end_date,
    pc,             \* where the run is
    header,         \* st.title and the introduction shown
    calls,          \* provider calls of this run
    provider,       \* how the provider took the call: idle, answered, failed
    data,           \* yf.download's result, symbol -> rows
    success,        \* st.success shown
    warnings,       \* st.warning messages shown
    preview_data,   \* the raw data table shown
    charts,         \* the figures given to st.plotly_chart, in order
    snapshot,       \* the dict of columns
    df_snapshot,    \* the table shown: none, or one sequence of rows
    csv_data,       \* the CSV download: none or one
    pdf,            \* the PDF download: none or one
    raised          \* the exception that ended the run

vars == <<symbols, start_date, end_date, pc, header, calls, provider, data,
          success, warnings, preview_data, charts, snapshot, df_snapshot,
          csv_data, pdf, raised>>

NoData == <<>>
Columns == <<"Symbol", "Latest Price", "Opening Price", "High", "Low", "Volume">>
EmptySnapshot ==
    [Symbol |-> <<>>, LatestPrice |-> <<>>, OpeningPrice |-> <<>>,
     High |-> <<>>, Low |-> <<>>, Volume |-> <<>>]

\* A run starts: nothing loaded, nothing shown.
Fresh(sel, s, e) ==
    /\ symbols = sel
    /\ start_date = s
    /\ end_date = e
    /\ pc = "header"
    /\ header = FALSE
    /\ calls = 0
    /\ provider = "idle"
    /\ data = NoData
    /\ success = FALSE
    /\ warnings = 0
    /\ preview_data = <<>>
    /\ charts = <<>>
    /\ snapshot = EmptySnapshot
    /\ df_snapshot = <<>>
    /\ csv_data = <<>>
    /\ pdf = <<>>
    /\ raised = "none"

Init == Fresh(DefaultSymbols, DefaultStart, Today)

\* A widget changes and the script runs again from the top.
Rerun ==
    /\ pc \in {"done", "aborted"}
    /\ \E sel \in Selections, s \in Dates, e \in Dates :
         /\ symbols' = sel
         /\ start_date' = s
         /\ end_date' = e
    /\ pc' = "header"
    /\ header' = FALSE
    /\ calls' = 0
    /\ provider' = "idle"
    /\ data' = NoData
    /\ success' = FALSE
    /\ warnings' = 0
    /\ preview_data' = <<>>
    /\ charts' = <<>>
    /\ snapshot' = EmptySnapshot
    /\ df_snapshot' = <<>>
    /\ csv_data' = <<>>
    /\ pdf' = <<>>
    /\ raised' = "none"

\* st.title(...); st.markdown(...): shown by every run, before the branch.
Header ==
    /\ pc = "header"
    /\ header' = TRUE
    /\ pc' = "main"
    /\ UNCHANGED <<symbols, start_date, end_date, calls, provider, data, success,
                   warnings, preview_data, charts, snapshot, df_snapshot,
                   csv_data, pdf, raised>>

\* The branch taken whatever the selection: "if symbols is not None".
BranchAlways ==
    /\ pc = "main"
    /\ pc' = "download"
    /\ UNCHANGED <<symbols, start_date, end_date, header, calls, provider,
                   data, success, warnings, preview_data, charts, snapshot,
                   df_snapshot, csv_data, pdf, raised>>

\* if symbols:
Branch ==
    /\ pc = "main"
    /\ pc' = IF symbols # <<>> THEN "download" ELSE "warn"
    /\ UNCHANGED <<symbols, start_date, end_date, header, calls, provider,
                   data, success, warnings, preview_data, charts, snapshot,
                   df_snapshot, csv_data, pdf, raised>>

\* The call wrapped in a try whose except passes: a fault goes unnoticed.
LoadSwallowingFault ==
    /\ pc = "download"
    /\ calls' = calls + 1
    /\ \/ \E f \in yf_download(symbols, start_date, end_date) :
            /\ provider' = "answered"
            /\ data' = f
       \/ /\ provider' = "failed"
          /\ data' = data
    /\ pc' = "success"
    /\ UNCHANGED <<symbols, start_date, end_date, header, success, warnings,
                   preview_data, charts, snapshot, df_snapshot, csv_data, pdf,
                   raised>>

\* data = yf.download(symbols, start=start_date, end=end_date, ...)
Load ==
    /\ pc = "download"
    /\ calls' = calls + 1
    /\ \/ \E f \in yf_download(symbols, start_date, end_date) :
            /\ provider' = "answered"
            /\ data' = f
            /\ pc' = "success"
            /\ raised' = raised
       \/ /\ provider' = "failed"
          /\ data' = data
          /\ pc' = "aborted"
          /\ raised' = "ProviderFault"
    /\ UNCHANGED <<symbols, start_date, end_date, header, success, warnings,
                   preview_data, charts, snapshot, df_snapshot, csv_data,
                   pdf>>

\* st.success("Data successfully loaded!")
Success ==
    /\ pc = "success"
    /\ success' = TRUE
    /\ pc' = "preview"
    /\ UNCHANGED <<symbols, start_date, end_date, header, calls, provider,
                   data, warnings, preview_data, charts, snapshot,
                   df_snapshot, csv_data, pdf, raised>>

\* pd.concat([data[sym].assign(Symbol=sym) for sym in symbols])
RECURSIVE Concat(_)
Concat(frames) ==
    IF frames = <<>> THEN <<>> ELSE Head(frames) \o Concat(Tail(frames))

Assign(rows, sym) == [i \in DOMAIN rows |-> [Symbol |-> sym, row |-> rows[i]]]

FirstRows(rows, n) == SubSeq(rows, 1, IF Len(rows) < n THEN Len(rows) ELSE n)

Preview ==
    /\ pc = "preview"
    /\ preview_data' =
         FirstRows(Concat([i \in DOMAIN symbols |->
                              Assign(data[symbols[i]], symbols[i])]),
                   PreviewRows)
    /\ pc' = "open"
    /\ UNCHANGED <<symbols, start_date, end_date, header, calls, provider,
                   data, success, warnings, charts, snapshot, df_snapshot,
                   csv_data, pdf, raised>>

\* One go.Scatter trace per symbol: x = data[sym].index, y = data[sym][column].
plot_line(title, column) ==
    [title |-> title,
     traces |-> [i \in DOMAIN symbols |->
                    [name |-> symbols[i],
                     x |-> Index(data[symbols[i]]),
                     y |-> Column(data[symbols[i]], column)]]]

Others == <<symbols, start_date, end_date, header, calls, provider, data,
            success, warnings, preview_data, snapshot, df_snapshot, csv_data,
            pdf, raised>>

\* plot_line("Opening Price", "Opening Price (USD)", "Open")
PlotOpen ==
    /\ pc = "open"
    /\ charts' = Append(charts, plot_line("Opening Price", "Open"))
    /\ pc' = "close"
    /\ UNCHANGED Others

\* plot_line("Closing Price", "Closing Price (USD)", "Close")
PlotClose ==
    /\ pc = "close"
    /\ charts' = Append(charts, plot_line("Closing Price", "Close"))
    /\ pc' = "volume"
    /\ UNCHANGED Others

\* The stacked volume figure: the same traces over the Volume column.
PlotVolume ==
    /\ pc = "volume"
    /\ charts' = Append(charts, plot_line("Volume Traded", "Volume"))
    /\ pc' = "pct"
    /\ UNCHANGED Others

\* The percent change left as a fraction: the "* 100" forgotten.
pct_fraction(sym) == pct_change(Column(data[sym], "Close"))

\* pct = data[sym]["Close"].pct_change() * 100, plotted over data[sym].index.
pct(sym) ==
    LET p == pct_change(Column(data[sym], "Close"))
    IN  [i \in DOMAIN p |-> FMul(p[i], PctFactor)]

PlotPct ==
    /\ pc = "pct"
    /\ charts' = Append(charts,
         [title |-> "Daily % Change",
          traces |-> [i \in DOMAIN symbols |->
                         [name |-> symbols[i],
                          x |-> Index(data[symbols[i]]),
                          y |-> pct(symbols[i])]]])
    /\ pc' = "candle"
    /\ UNCHANGED Others

\* One go.Candlestick trace per symbol.
PlotCandle ==
    /\ pc = "candle"
    /\ charts' = Append(charts,
         [title |-> "Candlestick View",
          traces |-> [i \in DOMAIN symbols |->
                         [name |-> symbols[i],
                          x |-> Index(data[symbols[i]]),
                          open |-> Column(data[symbols[i]], "Open"),
                          high |-> Column(data[symbols[i]], "High"),
                          low |-> Column(data[symbols[i]], "Low"),
                          close |-> Column(data[symbols[i]], "Close")]]])
    /\ pc' = "snapshot"
    /\ UNCHANGED Others

\* data[sym].iloc[-1]: the last row as delivered; IndexError on an empty frame.
iloc_last(rows) == rows[Len(rows)]

\* The snapshot loop stops at the first symbol whose frame is empty.
Completed ==
    IF \E i \in DOMAIN symbols : data[symbols[i]] = <<>>
    THEN (CHOOSE i \in DOMAIN symbols :
            /\ data[symbols[i]] = <<>>
            /\ \A j \in 1..(i - 1) : data[symbols[j]] # <<>>) - 1
    ELSE Len(symbols)

SnapshotColumns(n) ==
    [Symbol |-> [i \in 1..n |-> symbols[i]],
     LatestPrice |->
        [i \in 1..n |-> round(iloc_last(data[symbols[i]]).Close, Decimals)],
     OpeningPrice |->
        [i \in 1..n |-> round(iloc_last(data[symbols[i]]).Open, Decimals)],
     High |-> [i \in 1..n |-> round(iloc_last(data[symbols[i]]).High, Decimals)],
     Low |-> [i \in 1..n |-> round(iloc_last(data[symbols[i]]).Low, Decimals)],
     Volume |-> [i \in 1..n |-> int(iloc_last(data[symbols[i]]).Volume)]]

\* pd.DataFrame(snapshot): one row per entry of the columns.
DataFrame(cols) ==
    [i \in DOMAIN cols.Symbol |->
        [Symbol |-> cols.Symbol[i], LatestPrice |-> cols.LatestPrice[i],
         OpeningPrice |-> cols.OpeningPrice[i], High |-> cols.High[i],
         Low |-> cols.Low[i], Volume |-> cols.Volume[i]]]

\* snapshot = {...}; for sym in symbols: ...; df_snapshot; st.dataframe
Snapshot ==
    /\ pc = "snapshot"
    /\ snapshot' = SnapshotColumns(Completed)
    /\ IF Completed = Len(symbols)
       THEN /\ df_snapshot' = <<DataFrame(snapshot')>>
            /\ pc' = "csv"
            /\ raised' = raised
       ELSE /\ df_snapshot' = df_snapshot
            /\ pc' = "aborted"
            /\ raised' = "IndexError"
    /\ UNCHANGED <<symbols, start_date, end_date, header, calls, provider,
                   data, success, warnings, preview_data, charts, csv_data,
                   pdf>>

\* The table the exports write: the header, then the rows.
Table(df) == [header |-> Columns, rows |-> df]

\* df_snapshot.to_csv(index=False) and its download button
ExportCSV ==
    /\ pc = "csv"
    /\ csv_data' = <<Table(df_snapshot[1])>>
    /\ pc' = "pdf"
    /\ UNCHANGED <<symbols, start_date, end_date, header, calls, provider,
                   data, success, warnings, preview_data, charts, snapshot,
                   df_snapshot, pdf, raised>>

\* pdf.add_table(df_snapshot) and its download button
ExportPDF ==
    /\ pc = "pdf"
    /\ pdf' = <<Table(df_snapshot[1])>>
    /\ pc' = "done"
    /\ UNCHANGED <<symbols, start_date, end_date, header, calls, provider,
                   data, success, warnings, preview_data, charts, snapshot,
                   df_snapshot, csv_data, raised>>

\* st.warning("Please select at least one stock symbol to view data.")
Warn ==
    /\ pc = "warn"
    /\ warnings' = warnings + 1
    /\ pc' = "done"
    /\ UNCHANGED <<symbols, start_date, end_date, header, calls, provider,
                   data, success, preview_data, charts, snapshot, df_snapshot,
                   csv_data, pdf, raised>>

Next ==
    \/ Rerun
    \/ Header
    \/ Branch
    \/ Load
    \/ Success
    \/ Preview
    \/ PlotOpen
    \/ PlotClose
    \/ PlotVolume
    \/ PlotPct
    \/ PlotCandle
    \/ Snapshot
    \/ ExportCSV
    \/ ExportPDF
    \/ Warn

Spec == Init /\ [][Next]_vars

(***************************************************************************)
(* The claims.                                                             *)
(***************************************************************************)
RunEnded == pc \in {"done", "aborted"}
NonEmpty(sym) == data[sym] # <<>>
HasFigure(title) == \E i \in DOMAIN charts : charts[i].title = title
Figure(title) == charts[CHOOSE i \in DOMAIN charts : charts[i].title = title]
NoOutput ==
    /\ success = FALSE
    /\ preview_data = <<>>
    /\ charts = <<>>
    /\ snapshot = EmptySnapshot
    /\ df_snapshot = <<>>
    /\ csv_data = <<>>
    /\ pdf = <<>>

\* C1: once a run whose provider call was answered has ended, the snapshot
\* holds a row for a symbol exactly when that symbol's series is non-empty,
\* the rows in the order of the selection: its Symbol column is the selection
\* restricted to the symbols with rows (so there are at most as many rows as
\* symbols, and as many only when no series is empty).
C1_SnapshotRowsAreTheNonEmptySymbols ==
    (RunEnded /\ provider = "answered")
        => snapshot.Symbol = SelectSeq(symbols, NonEmpty)

\* C2: when the provider answered, with no rows for one of several selected
\* symbols, the run is not aborted: it ends normally, with the charts, the
\* snapshot rows of every symbol that has rows, and both exports.
C2_EmptySeriesDoesNotAbort ==
    (RunEnded /\ provider = "answered"
       /\ \E i, j \in DOMAIN symbols :
             ~NonEmpty(symbols[i]) /\ NonEmpty(symbols[j]))
        => /\ pc = "done"
           /\ raised = "none"
           /\ HasFigure("Candlestick View")
           /\ df_snapshot # <<>>
           /\ \A i \in DOMAIN symbols :
                NonEmpty(symbols[i])
                    => \E j \in DOMAIN snapshot.Symbol :
                          snapshot.Symbol[j] = symbols[i]
           /\ csv_data # <<>>
           /\ pdf # <<>>

\* C4: a run whose start_date is later than its end_date never calls the
\* provider and produces no chart, snapshot or export.
C4_NoFetchWhenStartAfterEnd ==
    start_date > end_date => calls = 0 /\ provider = "idle" /\ NoOutput

C6_EmptySelectionOnlyWarns ==
    symbols = <<>>
        => /\ calls = 0
           /\ provider = "idle"
           /\ NoOutput
           /\ raised = "none"
           /\ warnings <= 1
           /\ pc = "done" => warnings = 1

C6_Witness == symbols = <<>> /\ pc = "done" /\ warnings = 1

Closes(sym) == Column(data[sym], "Close")
PctTraces == Figure("Daily % Change").traces
LineTitles == {"Opening Price", "Closing Price", "Volume Traded"}

\* C3, as claimed: the plotted percent-change series of a symbol with n
\* records has max(0, n-1) entries, none for the first date.
C3_PctSeriesOmitsFirstDate ==
    HasFigure("Daily % Change")
        => \A i \in DOMAIN PctTraces :
              Len(PctTraces[i].y) = Max(0, Len(data[PctTraces[i].name]) - 1)

\* C3, amended: the plotted percent-change series of a symbol with n records
\* has n entries, the i-th paired with the date of record i; the first is NaN
\* (a placeholder, not an absence), so 0 records give an empty series and 1
\* record gives the one entry NaN.  Dates, opens, closes, highs, lows and
\* volumes all have n entries.
C3_PctSeriesHasNaNFirst ==
    /\ HasFigure("Daily % Change")
         => \A i \in DOMAIN PctTraces :
               LET t == PctTraces[i]
                   rows == data[t.name]
               IN  /\ Len(t.y) = Len(rows)
                   /\ t.x = Index(rows)
                   /\ Len(rows) >= 1 => t.y[1] = NaN
    /\ \A k \in DOMAIN charts :
         \A i \in DOMAIN charts[k].traces :
            LET t == charts[k].traces[i]
                n == Len(data[t.name])
            IN  /\ Len(t.x) = n
                /\ charts[k].title \in LineTitles => Len(t.y) = n
                /\ charts[k].title = "Candlestick View"
                     => /\ Len(t.open) = n
                        /\ Len(t.high) = n
                        /\ Len(t.low) = n
                        /\ Len(t.close) = n

C3_Witness ==
    /\ HasFigure("Candlestick View")
    /\ \E i, j \in DOMAIN PctTraces :
         /\ PctTraces[i].y = <<NaN>>
         /\ Len(PctTraces[j].y) = 3
         /\ PctTraces[j].y[1] = NaN
         /\ PctTraces[j].y[2].kind = "num"

\* C7: every row of the snapshot shown carries the values of a record with
\* the greatest date of its symbol's series, in whatever order the provider
\* delivered the rows.
C7_SnapshotIsGreatestDate ==
    df_snapshot # <<>>
        => \A i \in DOMAIN df_snapshot[1] :
              LET row == df_snapshot[1][i]
                  rows == data[row.Symbol]
              IN  \E k \in DOMAIN rows :
                     /\ \A j \in DOMAIN rows : rows[j].Date <= rows[k].Date
                     /\ row.LatestPrice = round(rows[k].Close, Decimals)
                     /\ row.OpeningPrice = round(rows[k].Open, Decimals)
                     /\ row.High = round(rows[k].High, Decimals)
                     /\ row.Low = round(rows[k].Low, Decimals)
                     /\ row.Volume = int(rows[k].Volume)

\* C8: the dates every chart trace runs over are strictly ascending, with no
\* date twice, whatever the provider delivered.
C8_SeriesStrictlyAscending ==
    \A k \in DOMAIN charts :
       \A i \in DOMAIN charts[k].traces :
          LET x == charts[k].traces[i].x
          IN  \A a, b \in DOMAIN x : a < b => x[a] < x[b]

\* floor(|y| * 2^12) of a finite double y with |y| < 2^18.
FixedAbs(y) ==
    IF y.kind = "zero" \/ y.exp + 13 <= 0 THEN 0
    ELSE FromBits(SubSeq(y.mant, 1, y.exp + 13))

\* floor(|(c - prev) / prev * 100| * 2^12), in exact arithmetic.
ExactFixed(c, prev) == (Abs(c - prev) * 100 * Pow(2, 12)) \div prev

\* C9, as claimed: for i in 2..n the percent change paired with date i is
\* exactly (close[i] - close[i-1]) / close[i-1] * 100, so that closes
\* 100, 110, 99 give exactly 10 and -10.
C9_PctIsExactlyTheFormula ==
    HasFigure("Daily % Change")
        => \A k \in DOMAIN PctTraces :
              LET t == PctTraces[k]
                  c == Closes(t.name)
              IN  \A i \in 2..Len(c) :
                     /\ i \in DOMAIN t.y
                     /\ t.y[i] = FMul(FDiv(c[i] - c[i - 1], c[i - 1]), 100)

\* C9, amended: for i in 2..n the percent change paired with date i is the
\* double (close[i] / close[i-1] - 1) * 100 of that symbol's closes, which
\* has the sign of, and differs by less than 2^-11 from,
\* (close[i] - close[i-1]) / close[i-1] * 100 without being exactly it
\* (closes 100, 110, 99 give 10.000000000000009 and -9.999999999999998);
\* after a zero close it is an infinity, or NaN when the close is zero again,
\* and the chart is still drawn.
C9_PctIsTheFormulaUpToRounding ==
    HasFigure("Daily % Change")
        => \A k \in DOMAIN PctTraces :
              LET t == PctTraces[k]
                  c == Closes(t.name)
              IN  \A i \in 2..Len(c) :
                     /\ i \in DOMAIN t.y
                     /\ t.x[i] = data[t.name][i].Date
                     /\ c[i - 1] = 0
                          => t.y[i] = IF c[i] = 0 THEN NaN ELSE Inf(0)
                     /\ c[i - 1] # 0
                          => /\ t.y[i].kind = IF c[i] = c[i - 1] THEN "zero" ELSE "num"
                             /\ t.y[i].sign = IF c[i] < c[i - 1] THEN 1 ELSE 0
                             /\ FixedAbs(t.y[i]) - ExactFixed(c[i], c[i - 1])
                                  \in {-1, 0, 1}

C9_Witness ==
    /\ HasFigure("Candlestick View")
    /\ \E k, m \in DOMAIN PctTraces :
         /\ Closes(PctTraces[k].name) = <<1600, 1760, 1584>>
         /\ PctTraces[k].y[2] = Num(0, 3, <<1, 0, 1, 0>> \o Zeros(46) \o <<1, 0, 1>>)
         /\ PctTraces[k].y[3] = Num(1, 3, <<1, 0, 0, 1>> \o [i \in 1..49 |-> 1])
         /\ Closes(PctTraces[m].name) = <<0, 1602, 0>>
         /\ PctTraces[m].y[2] = Inf(0)
         /\ PctTraces[m].y[3].sign = 1

\* The record the snapshot row of a symbol is taken from.
Source(sym) == data[sym][Len(data[sym])]

\* p hundredths is k/16 rounded to 2 decimals, a tie going up.
IsHalfUp(k, p) ==
    /\ 100 * k - 16 * p <= 8
    /\ 16 * p - 100 * k <= 8
    /\ 100 * k - 16 * p # 8

\* p hundredths is k/16 rounded to 2 decimals, a tie going to the even one.
IsHalfEven(k, p) ==
    /\ 100 * k - 16 * p <= 8
    /\ 16 * p - 100 * k <= 8
    /\ Abs(100 * k - 16 * p) = 8 => p % 2 = 0

\* v is k/16 with its fraction dropped.
IsTruncated(k, v) == 16 * v <= k /\ k < 16 * (v + 1)

\* C10, as claimed: in every snapshot row the four prices are the source
\* record's values rounded to 2 decimals, half up, and the volume is the raw
\* volume truncated to an integer.
C10_RoundsHalfUp ==
    df_snapshot # <<>>
        => \A i \in DOMAIN df_snapshot[1] :
              LET row == df_snapshot[1][i]
                  src == Source(row.Symbol)
              IN  /\ IsHalfUp(src.Close, row.LatestPrice)
                  /\ IsHalfUp(src.Open, row.OpeningPrice)
                  /\ IsHalfUp(src.High, row.High)
                  /\ IsHalfUp(src.Low, row.Low)
                  /\ IsTruncated(src.Volume, row.Volume)

\* C10, amended: in every snapshot row the four prices are the source
\* record's values rounded to 2 decimals with a value exactly halfway between
\* two hundredths going to the even one, and the volume is the raw volume
\* truncated to an integer.
C10_RoundsHalfEven ==
    df_snapshot # <<>>
        => \A i \in DOMAIN df_snapshot[1] :
              LET row == df_snapshot[1][i]
                  src == Source(row.Symbol)
              IN  /\ IsHalfEven(src.Close, row.LatestPrice)
                  /\ IsHalfEven(src.Open, row.OpeningPrice)
                  /\ IsHalfEven(src.High, row.High)
                  /\ IsHalfEven(src.Low, row.Low)
                  /\ IsTruncated(src.Volume, row.Volume)

\* A row from 100.0625, 101.125, 99.375 and volume 1000.625: an ordinary
\* rounding, a tie that goes down, a tie that goes up, a dropped fraction.
C10_Witness ==
    /\ pdf # <<>>
    /\ \E i \in DOMAIN df_snapshot[1] :
         /\ Source(df_snapshot[1][i].Symbol) = Row(1, 1601, 1618, 1590, 1600, 16010)
         /\ df_snapshot[1][i].OpeningPrice = 10006
         /\ df_snapshot[1][i].High = 10112
         /\ df_snapshot[1][i].Low = 9938
         /\ df_snapshot[1][i].Volume = 1000

=============================================================================
